---- MODULE Spec2Model ----
(***************************************************************************)
(* Model of nyota_personality.py: the NYOTA scoring engine.                *)
(*                                                                         *)
(* A flat answer map (global item number -> rating) is split into four     *)
(* blocks by parse_responses, each of the 8 axes of AXES_CONFIG is scored  *)
(* by compute_axis_score, compute_all_scores collects the 8 scores, and    *)
(* plot_kiviat draws them.                                                 *)
(*                                                                         *)
(* Numbers.  The code computes with Python floats.  A mean is modelled as  *)
(* the exact fraction <<numerator, denominator>> and a score as an integer *)
(* number of hundredths (50.0 is 5000), rounded half-to-even like Python's *)
(* round().  For the axis sizes of AXES_CONFIG (7, 9, 12, 14 items) the    *)
(* exact value is never half-way between two hundredths, so the float and  *)
(* the exact computation round to the same hundredth.                      *)
(*                                                                         *)
(* Axis names are written without their accents.                           *)
(***************************************************************************)
EXTENDS Integers, Sequences, FiniteSets, TLC

VARIABLES
    json_data,   \* the flat answer map given to compute_all_scores
    responses,   \* the per-block maps built by parse_responses
    scores,      \* the score map under construction / handed to plot_kiviat
    axis_name,   \* loop variable of compute_all_scores (or the argument)
    config,      \* loop variable of compute_all_scores (or the argument)
    axis_idx,    \* number of axes of AXES_CONFIG already iterated
    error,       \* the exception that ended the call, NoError if none
    pc,          \* position of the program
    figure,      \* "none" | "drawn": whether plot_kiviat created and drew the figure
    saved        \* whether plot_kiviat wrote the image file

vars == <<json_data, responses, scores, axis_name, config, axis_idx, error, pc,
          figure, saved>>

----------------------------------------------------------------------------
(* Static configuration *)

BlocOrder_reversed == <<"bloc4", "bloc3", "bloc2", "bloc1">>

\* the list literal scanned by compute_axis_score
BlocOrder == <<"bloc1", "bloc2", "bloc3", "bloc4">>

Blocs == {"bloc1", "bloc2", "bloc3", "bloc4"}

\* list(range(a, b)) of Python, as a sequence
RECURSIVE range(_, _)
range(a, b) == IF a >= b THEN <<>> ELSE <<a>> \o range(a + 1, b)

\* the set of elements of a sequence
Elems(s) == {s[i] : i \in 1..Len(s)}

\* insertion order of the AXES_CONFIG dict
AxisOrder ==
    << "Ouverture & Curiosite", "Discipline & Fiabilite", "Influence & Presence",
       "Cooperation", "Resilience & Stress", "Drive & Motivation",
       "Style d'action", "Alignement strategique" >>

AxisNames == Elems(AxisOrder)

AXES_CONFIG_dead_inversion ==
    [a \in AxisNames |->
        CASE a = "Ouverture & Curiosite" ->
                [bloc1 |-> range(1, 7), bloc2 |-> <<14>>, bloc3 |-> <<3, 6>>, invert |-> {}]
          [] a = "Discipline & Fiabilite" ->
                [bloc1 |-> range(7, 13), bloc3 |-> <<7, 11, 12>>, invert |-> {}]
          [] a = "Influence & Presence" ->
                [bloc1 |-> range(13, 19), bloc2 |-> <<15>>, invert |-> {}]
          [] a = "Cooperation" ->
                [bloc1 |-> range(19, 25), bloc2 |-> <<16>>, invert |-> {}]
          [] a = "Resilience & Stress" ->
                [bloc1 |-> range(25, 31), bloc2 |-> range(1, 9),
                 invert |-> {<<"bloc3", q>> : q \in Elems(range(1, 9))}]
          [] a = "Drive & Motivation" ->
                [bloc2 |-> <<9, 10, 11, 12, 13, 15, 16>>, invert |-> {}]
          [] a = "Style d'action" ->
                [bloc3 |-> range(1, 13), invert |-> {}]
          [] a = "Alignement strategique" ->
                [bloc4 |-> range(1, 15), invert |-> {}] ]

AXES_CONFIG_short_resilience ==
    [a \in AxisNames |->
        CASE a = "Ouverture & Curiosite" ->
                [bloc1 |-> range(1, 7), bloc2 |-> <<14>>, bloc3 |-> <<3, 6>>, invert |-> {}]
          [] a = "Discipline & Fiabilite" ->
                [bloc1 |-> range(7, 13), bloc3 |-> <<7, 11, 12>>, invert |-> {}]
          [] a = "Influence & Presence" ->
                [bloc1 |-> range(13, 19), bloc2 |-> <<15>>, invert |-> {}]
          [] a = "Cooperation" ->
                [bloc1 |-> range(19, 25), bloc2 |-> <<16>>, invert |-> {}]
          [] a = "Resilience & Stress" ->
                [bloc1 |-> range(25, 31), bloc2 |-> range(1, 8),
                 invert |-> {<<"bloc2", q>> : q \in Elems(range(1, 9))}]
          [] a = "Drive & Motivation" ->
                [bloc2 |-> <<9, 10, 11, 12, 13, 15, 16>>, invert |-> {}]
          [] a = "Style d'action" ->
                [bloc3 |-> range(1, 13), invert |-> {}]
          [] a = "Alignement strategique" ->
                [bloc4 |-> range(1, 15), invert |-> {}] ]

AXES_CONFIG ==
    [a \in AxisNames |->
        CASE a = "Ouverture & Curiosite" ->
                [bloc1 |-> range(1, 7), bloc2 |-> <<14>>, bloc3 |-> <<3, 6>>, invert |-> {}]
          [] a = "Discipline & Fiabilite" ->
                [bloc1 |-> range(7, 13), bloc3 |-> <<7, 11, 12>>, invert |-> {}]
          [] a = "Influence & Presence" ->
                [bloc1 |-> range(13, 19), bloc2 |-> <<15>>, invert |-> {}]
          [] a = "Cooperation" ->
                [bloc1 |-> range(19, 25), bloc2 |-> <<16>>, invert |-> {}]
          [] a = "Resilience & Stress" ->
                [bloc1 |-> range(25, 31), bloc2 |-> range(1, 9),
                 invert |-> {<<"bloc2", q>> : q \in Elems(range(1, 9))}]
          [] a = "Drive & Motivation" ->
                [bloc2 |-> <<9, 10, 11, 12, 13, 15, 16>>, invert |-> {}]
          [] a = "Style d'action" ->
                [bloc3 |-> range(1, 13), invert |-> {}]
          [] a = "Alignement strategique" ->
                [bloc4 |-> range(1, 15), invert |-> {}] ]

----------------------------------------------------------------------------
(* Utility functions *)

invert_score_identity(value) == value

invert_score_five_minus(value) == 5 - value

invert_score(value) == 6 - value

\* Python's round() to an integer, half to even, of the fraction p / q (q > 0)
RoundHalfEven(p, q) ==
    LET fl == p \div q
        r  == p - fl * q
    IN  IF 2 * r < q THEN fl
        ELSE IF 2 * r > q THEN fl + 1
        ELSE IF fl % 2 = 0 THEN fl ELSE fl + 1

normalize_to_100_no_shift(score) == RoundHalfEven(score[1] * 10000, 4 * score[2])

\* score is the fraction <<num, den>>; the result is in hundredths
normalize_to_100(score) ==
    RoundHalfEven((score[1] - score[2]) * 10000, 4 * score[2])

----------------------------------------------------------------------------
(* parse_responses *)

\* one of the four loops: for i in range(first, last): if i in json_data: bloc[i - offset] = json_data[i]
RECURSIVE parse_bloc(_, _, _, _)
parse_bloc(data, first, last, offset) ==
    IF first >= last THEN <<>>
    ELSE LET rest == parse_bloc(data, first + 1, last, offset)
         IN  IF first \in DOMAIN data
             THEN ((first - offset) :> data[first]) @@ rest
             ELSE rest

parse_responses_bloc2_off_by_one(data) ==
    [ bloc1 |-> parse_bloc(data, 1, 31, 0),
      bloc2 |-> parse_bloc(data, 31, 47, 31),
      bloc3 |-> parse_bloc(data, 47, 59, 46),
      bloc4 |-> parse_bloc(data, 59, 73, 58) ]

parse_responses(data) ==
    [ bloc1 |-> parse_bloc(data, 1, 31, 0),
      bloc2 |-> parse_bloc(data, 31, 47, 30),
      bloc3 |-> parse_bloc(data, 47, 59, 46),
      bloc4 |-> parse_bloc(data, 59, 73, 58) ]

----------------------------------------------------------------------------
(* compute_axis_score *)

NoError == [kind |-> "none"]

\* raise ValueError(f"[{axis_name}] Item manquant : {bloc_name} Q{item_num}")
MissingItem(a, b, i) == [kind |-> "ValueError", axis |-> a, bloc |-> b, item |-> i]

RECURSIVE Sum(_)
Sum(s) == IF s = <<>> THEN 0 ELSE Head(s) + Sum(Tail(s))

\* the inner loop, from the k-th item of config[bloc_name] on
RECURSIVE scan_items_skip_missing(_, _, _, _, _, _)
scan_items_skip_missing(name, cfg, resp, bloc_name, k, values) ==
    IF k > Len(cfg[bloc_name]) THEN [kind |-> "values", values |-> values]
    ELSE LET item_num == cfg[bloc_name][k]
         IN  IF item_num \notin DOMAIN resp[bloc_name]
             THEN scan_items_skip_missing(name, cfg, resp, bloc_name, k + 1, values)
             ELSE LET raw   == resp[bloc_name][item_num]
                      value == IF <<bloc_name, item_num>> \in cfg.invert
                               THEN invert_score(raw) ELSE raw
                  IN  scan_items_skip_missing(name, cfg, resp, bloc_name, k + 1,
                                              Append(values, value))

RECURSIVE scan_items_invert_by_item_number(_, _, _, _, _, _)
scan_items_invert_by_item_number(name, cfg, resp, bloc_name, k, values) ==
    IF k > Len(cfg[bloc_name]) THEN [kind |-> "values", values |-> values]
    ELSE LET item_num == cfg[bloc_name][k]
         IN  IF item_num \notin DOMAIN resp[bloc_name]
             THEN MissingItem(name, bloc_name, item_num)
             ELSE LET raw   == resp[bloc_name][item_num]
                      value == IF item_num \in {p[2] : p \in cfg.invert}
                               THEN invert_score(raw) ELSE raw
                  IN  scan_items_invert_by_item_number(name, cfg, resp, bloc_name, k + 1,
                                                       Append(values, value))

RECURSIVE scan_items(_, _, _, _, _, _)
scan_items(name, cfg, resp, bloc_name, k, values) ==
    IF k > Len(cfg[bloc_name]) THEN [kind |-> "values", values |-> values]
    ELSE LET item_num == cfg[bloc_name][k]
         IN  IF item_num \notin DOMAIN resp[bloc_name]
             THEN MissingItem(name, bloc_name, item_num)
             ELSE LET raw   == resp[bloc_name][item_num]
                      value == IF <<bloc_name, item_num>> \in cfg.invert
                               THEN invert_score(raw) ELSE raw
                  IN  scan_items(name, cfg, resp, bloc_name, k + 1,
                                 Append(values, value))

\* the outer loop, from the b-th name of BlocOrder on
RECURSIVE scan_blocs(_, _, _, _, _)
scan_blocs(name, cfg, resp, b, values) ==
    IF b > Len(BlocOrder) THEN [kind |-> "values", values |-> values]
    ELSE LET bloc_name == BlocOrder[b]
         IN  IF bloc_name \notin DOMAIN cfg
             THEN scan_blocs(name, cfg, resp, b + 1, values)
             ELSE LET r == scan_items(name, cfg, resp, bloc_name, 1, values)
                  IN  IF r.kind = "ValueError" THEN r
                      ELSE scan_blocs(name, cfg, resp, b + 1, r.values)

\* the result is [kind |-> "score", value |-> hundredths] or a MissingItem
compute_axis_score(name, cfg, resp) ==
    LET r == scan_blocs(name, cfg, resp, 1, <<>>)
    IN  IF r.kind = "ValueError" THEN r
        ELSE IF r.values = <<>> THEN [kind |-> "score", value |-> 0]
        ELSE [kind |-> "score",
              value |-> normalize_to_100(<<Sum(r.values), Len(r.values)>>)]

----------------------------------------------------------------------------
(* plot_kiviat *)

\* raise ValueError(f"Le diagramme necessite 8 axes, trouve : {len(scores)}")
AxisCountError(n) == [kind |-> "ValueError", found |-> n]

plot_kiviat_at_least_8(sc, save_path) ==
    IF Cardinality(DOMAIN sc) < 8
    THEN [error |-> AxisCountError(Cardinality(DOMAIN sc)), figure |-> "none", saved |-> FALSE]
    ELSE [error |-> NoError, figure |-> "drawn", saved |-> save_path]

\* save_path is TRUE when a path is given, FALSE when it is None
plot_kiviat(sc, save_path) ==
    IF Cardinality(DOMAIN sc) # 8
    THEN [error |-> AxisCountError(Cardinality(DOMAIN sc)), figure |-> "none", saved |-> FALSE]
    ELSE [error |-> NoError, figure |-> "drawn", saved |-> save_path]

----------------------------------------------------------------------------
(* Inputs *)

NumItems == 72

Items == 1..NumItems

Ratings == 1..5

\* ratings and the two nearest out-of-scale values
Values == 0..6

\* keys outside 1..72
ExtraKeys == {0, 73}

\* at most MaxMissing keys of 1..72 are absent from a partial answer map
MaxMissing == 2

\* at most MaxDev answers differ from the uniform rating of a sheet
MaxDev == 1

\* a score map handed directly to plot_kiviat has at most MaxEntries entries
MaxEntries == 9

BlocOf(g) ==
    IF g <= 30 THEN "bloc1" ELSE IF g <= 46 THEN "bloc2"
    ELSE IF g <= 58 THEN "bloc3" ELSE "bloc4"

RECURSIVE SubsetsUpTo(_, _)
SubsetsUpTo(S, k) ==
    IF k = 0 THEN {{}}
    ELSE LET prev == SubsetsUpTo(S, k - 1)
         IN  prev \cup {s \cup {x} : s \in prev, x \in S}

\* partial maps from at most k items to ratings other than v
RECURSIVE DevsUpTo(_, _)
DevsUpTo(k, v) ==
    IF k = 0 THEN {<<>>}
    ELSE LET prev == DevsUpTo(k - 1, v)
         IN  prev \cup {(g :> w) @@ d : d \in prev, g \in Items, w \in Ratings \ {v}}

\* the answer map: sheet without the keys of miss, with the keys of extra
\* (an extra key carries the value 4)
RawResponses(sheet, miss, extra) ==
    [g \in (Items \ miss) \cup extra |-> IF g \in Items THEN sheet[g] ELSE 4]

\* one value per block
BlockSheet(base) == [g \in Items |-> base[BlocOf(g)]]

\* the value v everywhere but on the items of dev
DevSheet(v, dev) == [g \in Items |-> IF g \in DOMAIN dev THEN dev[g] ELSE v]

\* values that differ from item to item, out-of-scale ones included
RampSheet == [g \in Items |-> g % 7]

\* complete sheets, one rating (or out-of-scale value) per block
InitBlockSheets ==
    \E base \in [Blocs -> Values], extra \in SUBSET ExtraKeys :
        json_data = RawResponses(BlockSheet(base), {}, extra)

\* complete sheets, all 1 or all 5 but for at most MaxDev answers
InitDeviations ==
    \E v \in {1, 5} : \E dev \in DevsUpTo(MaxDev, v) :
        json_data = RawResponses(DevSheet(v, dev), {}, {})

\* partial sheets: up to MaxMissing answers absent
InitPartialSheets ==
    \E miss \in SubsetsUpTo(Items, MaxMissing), extra \in {{}, ExtraKeys} :
        json_data = RawResponses(RampSheet, miss, extra)

EmptyMap == <<>>

\* generate_nyota_report / compute_all_scores is called with json_data
InitCall ==
    /\ responses = EmptyMap
    /\ scores = EmptyMap
    /\ axis_name = "" /\ config = EmptyMap
    /\ axis_idx = 0
    /\ error = NoError
    /\ pc = "start"
    /\ figure = "none" /\ saved = FALSE

\* labels of a score map handed directly to plot_kiviat
RECURSIVE Labels(_)
Labels(n) == IF n = 0 THEN <<>>
             ELSE Append(Labels(n - 1),
                         IF n <= Len(AxisOrder) THEN AxisOrder[n] ELSE ToString(n))

\* plot_kiviat is called directly with a score map of n entries
InitPlot ==
    /\ \E n \in 0..MaxEntries, v \in {0, 4286, 5000, 10000} :
          scores = [a \in Elems(Labels(n)) |-> v]
    /\ json_data = EmptyMap /\ responses = EmptyMap
    /\ axis_name = "" /\ config = EmptyMap
    /\ axis_idx = 0
    /\ error = NoError
    /\ pc = "plot_call"
    /\ figure = "none" /\ saved = FALSE

\* complete answer maps, and direct calls of plot_kiviat
Init == (InitCall /\ (InitBlockSheets \/ InitDeviations)) \/ InitPlot

\* answer maps with absent keys
InitPartial == InitCall /\ InitPartialSheets

----------------------------------------------------------------------------
(* compute_all_scores, step by step *)

\* responses = parse_responses(json_responses); scores = {}
Parse ==
    /\ pc = "start"
    /\ responses' = parse_responses(json_data)
    /\ scores' = EmptyMap
    /\ pc' = "loop"
    /\ UNCHANGED <<json_data, axis_name, config, axis_idx, error, figure, saved>>

\* one iteration of: for axis_name, config in AXES_CONFIG.items()
ScoreAxis ==
    /\ pc = "loop"
    /\ axis_idx < Len(AxisOrder)
    /\ LET name == AxisOrder[axis_idx + 1]
           cfg  == AXES_CONFIG[name]
           r    == compute_axis_score(name, cfg, responses)
       IN  /\ axis_name' = name
           /\ config' = cfg
           /\ axis_idx' = axis_idx + 1
           /\ IF r.kind = "ValueError"
              THEN /\ error' = r
                   /\ pc' = "raised"
                   /\ UNCHANGED scores
              ELSE /\ scores' = (name :> r.value) @@ scores
                   /\ UNCHANGED <<error, pc>>
    /\ UNCHANGED <<json_data, responses, figure, saved>>

\* return scores
Return ==
    /\ pc = "loop"
    /\ axis_idx = Len(AxisOrder)
    /\ pc' = "returned"
    /\ UNCHANGED <<json_data, responses, scores, axis_name, config, axis_idx,
                   error, figure, saved>>

\* plot_kiviat(scores, save_path), called by generate_nyota_report with the
\* returned map or directly by a caller
PlotKiviat ==
    /\ pc \in {"returned", "plot_call"}
    /\ \E save_path \in BOOLEAN :
          LET r == plot_kiviat(scores, save_path)
          IN  /\ error' = r.error
              /\ figure' = r.figure
              /\ saved' = r.saved
              /\ pc' = IF r.error = NoError THEN "shown" ELSE "plot_raised"
    /\ UNCHANGED <<json_data, responses, scores, axis_name, config, axis_idx>>

Next == Parse \/ ScoreAxis \/ Return \/ PlotKiviat

Spec == Init /\ [][Next]_vars

SpecPartial == InitPartial /\ [][Next]_vars

----------------------------------------------------------------------------
(* compute_axis_score called directly, with a configuration of the caller *)

\* at most MaxExtraInvert pairs are added to the inversion list of an axis
MaxExtraInvert == 1

LocalItems(b) ==
    IF b = "bloc1" THEN 1..30 ELSE IF b = "bloc2" THEN 1..16
    ELSE IF b = "bloc3" THEN 1..12 ELSE 1..14

AllPairs == UNION {{<<b, l>> : l \in LocalItems(b)} : b \in Blocs}

\* the argument is an entry of AXES_CONFIG with extra pairs in its inversion
\* list; the responses are parsed from a uniform or a ramp sheet
InitAxis ==
    /\ \E a \in AxisNames, extra \in SubsetsUpTo(AllPairs, MaxExtraInvert) :
          /\ axis_name = a
          /\ config = [AXES_CONFIG[a] EXCEPT !.invert = @ \cup extra]
    /\ \E sheet \in {BlockSheet([b \in Blocs |-> v]) : v \in {1, 3, 5}} \cup {RampSheet},
          miss \in {{}, {31}} :
          json_data = RawResponses(sheet, miss, {})
    /\ responses = parse_responses(json_data)
    /\ scores = EmptyMap
    /\ axis_idx = 0
    /\ error = NoError
    /\ pc = "axis_call"
    /\ figure = "none" /\ saved = FALSE

CallAxisScore ==
    /\ pc = "axis_call"
    /\ LET r == compute_axis_score(axis_name, config, responses)
       IN  IF r.kind = "ValueError"
           THEN /\ error' = r
                /\ pc' = "axis_raised"
                /\ UNCHANGED scores
           ELSE /\ scores' = (axis_name :> r.value)
                /\ pc' = "axis_returned"
                /\ UNCHANGED error
    /\ UNCHANGED <<json_data, responses, axis_name, config, axis_idx, figure, saved>>

NextAxis == CallAxisScore

SpecAxis == InitAxis /\ [][NextAxis]_vars

----------------------------------------------------------------------------
(* Vocabulary of the properties *)

Resilience == "Resilience & Stress"

\* global key of a local item
Offset(b) ==
    IF b = "bloc1" THEN 0 ELSE IF b = "bloc2" THEN 30
    ELSE IF b = "bloc3" THEN 46 ELSE 58

ConfiguredBlocs(cfg) == DOMAIN cfg \ {"invert"}

\* the (block, item) pairs an axis configuration collects
Contributing(cfg) ==
    UNION {{<<b, cfg[b][k]>> : k \in 1..Len(cfg[b])} : b \in ConfiguredBlocs(cfg)}

\* inversion entries that name no contributing item
DeadInversions(cfg) == cfg.invert \ Contributing(cfg)

Parsed == DOMAIN responses = Blocs

\* configured pairs of AXES_CONFIG with no entry in the parsed responses
AbsentPairs ==
    {t \in UNION {Contributing(AXES_CONFIG[a]) : a \in AxisNames} :
        t[2] \notin DOMAIN responses[t[1]]}

Complete == Items \subseteq DOMAIN json_data

AllRated(v) == Complete /\ \A g \in Items : json_data[g] = v

\* the value an axis collects for a contributing pair, read from the answer map
Collected(a, t) ==
    LET v == json_data[t[2] + Offset(t[1])]
    IN  IF t \in AXES_CONFIG[a].invert THEN 6 - v ELSE v

----------------------------------------------------------------------------
(* Properties *)

\* C1 (fail-fast report): once the parsed responses lack a pair configured for
\* some axis, compute_all_scores never returns a score map: it is still
\* in its loop with an axis left to score, or it has raised the missing-item error, and
\* the axis that failed has no entry (no placeholder) in the scores.
C1_FailFast ==
    (Parsed /\ AbsentPairs # {}) =>
        /\ pc \in {"loop", "raised"}
        /\ pc = "loop" => axis_idx < Len(AxisOrder)
        /\ pc = "raised" =>
              /\ error.kind = "ValueError" /\ "item" \in DOMAIN error
              /\ axis_name \notin DOMAIN scores
              /\ figure = "none"

C1_Witness ==
    /\ pc = "raised" /\ AbsentPairs # {}
    /\ Cardinality(DOMAIN scores) = 4

\* C2 (parser offsets): parse_responses builds exactly the four block maps;
\* a key g of the input with value v gives bloc1[g], bloc2[g-30], bloc3[g-46]
\* or bloc4[g-58] = v according to its range; and every local item of a block
\* is in the block's local range and comes from a key of the input.
C2_ParserOffsets ==
    pc # "start" =>
        /\ DOMAIN responses = {"bloc1", "bloc2", "bloc3", "bloc4"}
        /\ \A g \in DOMAIN json_data :
              /\ (1 <= g /\ g <= 30) =>
                    (g \in DOMAIN responses.bloc1 /\ responses.bloc1[g] = json_data[g])
              /\ (31 <= g /\ g <= 46) =>
                    (g - 30 \in DOMAIN responses.bloc2
                     /\ responses.bloc2[g - 30] = json_data[g])
              /\ (47 <= g /\ g <= 58) =>
                    (g - 46 \in DOMAIN responses.bloc3
                     /\ responses.bloc3[g - 46] = json_data[g])
              /\ (59 <= g /\ g <= 72) =>
                    (g - 58 \in DOMAIN responses.bloc4
                     /\ responses.bloc4[g - 58] = json_data[g])
        /\ DOMAIN responses.bloc1 \subseteq {g \in 1..30 : g \in DOMAIN json_data}
        /\ DOMAIN responses.bloc2 \subseteq {g - 30 : g \in {h \in 31..46 : h \in DOMAIN json_data}}
        /\ DOMAIN responses.bloc3 \subseteq {g - 46 : g \in {h \in 47..58 : h \in DOMAIN json_data}}
        /\ DOMAIN responses.bloc4 \subseteq {g - 58 : g \in {h \in 59..72 : h \in DOMAIN json_data}}

\* keys 0 and 73 given, key 31 absent, out-of-scale values 6 and 0 on keys 6 and 70
C2_Witness ==
    /\ pc = "loop" /\ axis_idx = 0
    /\ {0, 73} \subseteq DOMAIN json_data /\ 31 \notin DOMAIN json_data
    /\ 1 \notin DOMAIN responses.bloc2
    /\ responses.bloc2[16] = json_data[46]
    /\ responses.bloc4[14] = json_data[72]
    /\ responses.bloc1[6] = 6 /\ responses.bloc4[12] = 0

\* C3 (neutral end-to-end): when all 72 items are rated 3, the returned score
\* map gives every one of the 8 axes, Resilience & Stress included, 50.0.
C3_Neutral ==
    (pc = "returned" /\ AllRated(3)) =>
        /\ DOMAIN scores = AxisNames
        /\ \A a \in AxisNames : scores[a] = 5000

C3_Witness ==
    /\ pc = "returned" /\ AllRated(3)
    /\ scores[Resilience] = 5000

\* C4 (extreme end-to-end): when all 72 items are rated 5, Resilience & Stress
\* scores strictly less than 100.0 and every axis with an empty inversion set
\* scores exactly 100.0.
C4_Extreme ==
    (pc = "returned" /\ AllRated(5)) =>
        /\ scores[Resilience] < 10000
        /\ \A a \in AxisNames : AXES_CONFIG[a].invert = {} => scores[a] = 10000

C4_Witness ==
    /\ pc = "returned" /\ AllRated(5)
    /\ scores[Resilience] = 4286
    /\ scores["Discipline & Fiabilite"] = 10000

\* C5 (score range): when all 72 items are rated in 1..5, every returned axis
\* score is in [0, 100]; it is 0 only if every value the axis collects (after
\* inversion) is 1, and 100 only if every one is 5.
C5_ScoreRange ==
    (pc = "returned" /\ Complete /\ \A g \in Items : json_data[g] \in 1..5) =>
        \A a \in AxisNames :
            /\ 0 <= scores[a] /\ scores[a] <= 10000
            /\ scores[a] = 0 =>
                  \A t \in Contributing(AXES_CONFIG[a]) : Collected(a, t) = 1
            /\ scores[a] = 10000 =>
                  \A t \in Contributing(AXES_CONFIG[a]) : Collected(a, t) = 5

\* Resilience & Stress at 0 (its bloc1 items 1, its inverted bloc2 items 5)
\* next to an axis at 100 and an axis strictly between
C5_Witness ==
    /\ pc = "returned" /\ Complete /\ \A g \in Items : json_data[g] \in 1..5
    /\ scores[Resilience] = 0
    /\ scores["Style d'action"] = 10000
    /\ scores["Ouverture & Curiosite"] \in 1..9999

\* C6 as claimed (inversion without inclusion is rejected): a call of
\* compute_axis_score with a configuration that has a dead inversion entry
\* ends in an error other than the missing-item error and returns no score.
C6_DeadInversionRejected ==
    (pc \in {"axis_returned", "axis_raised"} /\ DeadInversions(config) # {}) =>
        /\ pc = "axis_raised"
        /\ "item" \notin DOMAIN error

\* C6 as amended (inversion without inclusion is ignored): a call of
\* compute_axis_score with a configuration that has a dead inversion entry
\* reports no configuration error; its outcome, a score or the missing-item
\* error, is the outcome of the same configuration without the dead entries.
C6_DeadInversionIgnored ==
    (pc \in {"axis_returned", "axis_raised"} /\ DeadInversions(config) # {}) =>
        LET live == [config EXCEPT !.invert = @ \cap Contributing(config)]
            r    == compute_axis_score(axis_name, live, responses)
        IN  /\ pc = "axis_returned" =>
                  (r.kind = "score" /\ scores = (axis_name :> r.value))
            /\ pc = "axis_raised" =>
                  (r.kind = "ValueError" /\ error = r /\ "item" \in DOMAIN error)

\* a score is returned although <<"bloc2", 3>>, which Ouverture & Curiosite
\* does not collect, is in its inversion list (it collects bloc1 3 and bloc3 3)
C6_Witness ==
    /\ pc = "axis_returned"
    /\ axis_name = "Ouverture & Curiosite"
    /\ DeadInversions(config) = {<<"bloc2", 3>>}
    /\ AllRated(5)
    /\ scores[axis_name] = 10000

\* C7 (no dead inversion in the static configuration): every inversion pair
\* of every axis of AXES_CONFIG is a contributing item of that axis; the
\* inverted pairs of Resilience & Stress are exactly its bloc2 items 1..8;
\* the 7 other axes invert nothing; so the configuration iterated by
\* compute_all_scores never has a dead inversion.
C7_NoDeadInversion ==
    /\ \A a \in AxisNames :
          /\ DeadInversions(AXES_CONFIG[a]) = {}
          /\ a # Resilience => AXES_CONFIG[a].invert = {}
    /\ AXES_CONFIG[Resilience].invert = {<<"bloc2", q>> : q \in 1..8}
    /\ {AXES_CONFIG[Resilience].bloc2[k] : k \in 1..Len(AXES_CONFIG[Resilience].bloc2)} = 1..8
    /\ Cardinality(AxisNames) = 8
    /\ axis_name \in AxisNames =>
          (config = AXES_CONFIG[axis_name] /\ DeadInversions(config) = {})

C7_Witness ==
    /\ pc = "loop" /\ axis_name = Resilience
    /\ config.invert # {}
    /\ Resilience \in DOMAIN scores

\* C8 (render precondition): plot_kiviat raises its validation error, with no
\* figure drawn and no file saved, exactly when the score map does not have 8
\* entries; the map returned by compute_all_scores has the 8 axes of
\* AXES_CONFIG as entries and is never rejected.
C8_RenderPrecondition ==
    /\ pc = "plot_raised" =>
          /\ Cardinality(DOMAIN scores) # 8
          /\ error = [kind |-> "ValueError", found |-> Cardinality(DOMAIN scores)]
          /\ figure = "none" /\ saved = FALSE
    /\ pc = "shown" =>
          /\ Cardinality(DOMAIN scores) = 8
          /\ error.kind = "none" /\ figure = "drawn"
    /\ pc = "returned" =>
          /\ DOMAIN scores = AxisNames /\ Cardinality(DOMAIN scores) = 8
    /\ (pc = "plot_raised" /\ axis_idx = Len(AxisOrder)) => FALSE

C8_Witness ==
    /\ pc = "plot_raised"
    /\ Cardinality(DOMAIN scores) = 9
    /\ figure = "none" /\ saved = FALSE

\* position <<axis, block, place in the list>> of the configured items whose
\* global key is absent from the answer map
MissingPlaces ==
    {p \in UNION {UNION {{<<ai, bi, k>> :
                            k \in 1..(IF <<"bloc1", "bloc2", "bloc3", "bloc4">>[bi]
                                           \in DOMAIN AXES_CONFIG[AxisOrder[ai]]
                                      THEN Len(AXES_CONFIG[AxisOrder[ai]]
                                                 [<<"bloc1", "bloc2", "bloc3", "bloc4">>[bi]])
                                      ELSE 0)} :
                         bi \in 1..4} :
                  ai \in 1..Len(AxisOrder)} :
        LET b == <<"bloc1", "bloc2", "bloc3", "bloc4">>[p[2]]
        IN  AXES_CONFIG[AxisOrder[p[1]]][b][p[3]] + Offset(b) \notin DOMAIN json_data}

Before(p, q) ==
    \/ p[1] < q[1]
    \/ p[1] = q[1] /\ p[2] < q[2]
    \/ p[1] = q[1] /\ p[2] = q[2] /\ p[3] <= q[3]

\* C9 (first-failure reporting): the error of compute_all_scores names the
\* first missing item in the order axes of AXES_CONFIG, then bloc1..bloc4,
\* then the block's list; the axes before it are the only ones scored and the
\* call has ended; when global item 1 is missing the error names
\* Ouverture & Curiosite, bloc1, item 1.
C9_FirstFailure ==
    pc = "raised" =>
        /\ MissingPlaces # {}
        /\ LET first == CHOOSE p \in MissingPlaces : \A q \in MissingPlaces : Before(p, q)
               b     == <<"bloc1", "bloc2", "bloc3", "bloc4">>[first[2]]
           IN  /\ error = [kind |-> "ValueError", axis |-> AxisOrder[first[1]], bloc |-> b,
                           item |-> AXES_CONFIG[AxisOrder[first[1]]][b][first[3]]]
               /\ DOMAIN scores = {AxisOrder[i] : i \in 1..(first[1] - 1)}
               /\ axis_idx = first[1]
        /\ ~ ENABLED Next
        /\ 1 \notin DOMAIN json_data =>
              error = [kind |-> "ValueError", axis |-> "Ouverture & Curiosite",
                       bloc |-> "bloc1", item |-> 1]

\* two items of the same axis missing, in bloc1 and in bloc3: bloc1 is reported
C9_Witness ==
    /\ pc = "raised"
    /\ Items \ DOMAIN json_data = {2, 49}
    /\ error.axis = "Ouverture & Curiosite" /\ error.bloc = "bloc1" /\ error.item = 2

\* every configured item number lies in its block's local range
ConfigInRange ==
    \A a \in AxisNames : \A t \in Contributing(AXES_CONFIG[a]) :
        t[2] \in LocalItems(t[1])

\* every one of the 72 global items is collected by at least one axis
ConfigCoversAll ==
    \A g \in 1..72 : \E a \in AxisNames, t \in AllPairs :
        t \in Contributing(AXES_CONFIG[a]) /\ t[2] + Offset(t[1]) = g

\* C10 (completeness is necessary and sufficient): every configured item is
\* in its block's local range, every one of the 72 items is collected by some
\* axis, and compute_all_scores returns a score map exactly when the answer
\* map has every key 1..72: the loop ends (and the map is returned) only for
\* a complete map, and a raise happens only for a map with a missing key.
C10_CompleteIffScored ==
    /\ ConfigInRange
    /\ ConfigCoversAll
    /\ (pc = "loop" /\ axis_idx = Len(AxisOrder)) => Complete
    /\ pc = "returned" => (Complete /\ DOMAIN scores = AxisNames)
    /\ pc = "raised" => ~ Complete

\* only the last item is missing: seven axes were scored and the report fails
C10_Witness ==
    /\ pc = "raised"
    /\ Items \ DOMAIN json_data = {72}
    /\ Cardinality(DOMAIN scores) = 7

====
